---- MODULE Spec2Model ----
(***************************************************************************)
(* A model of chash (src/src/main.rs): the registry pass over the clang    *)
(* AST, the dependency closure over the registry and the rendering of the  *)
(* closure on standard output.                                             *)
(*                                                                         *)
(* Strings are sequences of character codes, so that the derived Ord of    *)
(* TypeId(String) is the lexicographic order it is in Rust.  Option<T> is  *)
(* a sequence of length 0 (None) or 1 (Some(x)).                           *)
(*                                                                         *)
(* Spec runs main over translation units whose queries succeed (every      *)
(* pointer graph over RecIds) and two failing entities; PassSpec runs the  *)
(* same main over entities of every shape the callback tells apart;        *)
(* LiveSpec is Spec with main never suspended.                             *)
(***************************************************************************)
EXTENDS Naturals, Sequences, FiniteSets

VARIABLES
    pc,                 \* position in main
    argv,               \* std::env::args() of the process
    name_filters,       \* HashSet<String> of line 177
    tu,                 \* whether index.parser(file).parse() has run
    nvisited,           \* number of entities visit_children has handed to the callback
    struct_lookup,      \* HashMap<TypeId, RecordInfo>
    targets,            \* HashSet<TypeId>
    encountered,        \* history: the (TypeId, name) pairs whose queries succeeded
    met,                \* history: the kinds of encounter the pass has had so far
    last,               \* history: what the latest call of the callback met and did,
                        \* kept as long as the callback lives
    stderr,             \* what eprintln! has written
    remaining,          \* the targets `for target in targets` has not yet yielded
    visited,            \* HashSet of line 328
    discovered,         \* HashSet of line 329
    stack,              \* Vec<TypeId> of line 331
    type_dependencies,  \* BTreeSet<TypeId> of line 325
    deps_iter,          \* the part of type_dependencies line 418 has not yet yielded
    stdout,             \* the lines println! has written
    err                 \* how the run ended: None, Some(message)

vars == << pc, argv, name_filters, tu, nvisited, struct_lookup, targets,
           encountered, met, last, stderr, remaining, visited, discovered,
           stack,
           type_dependencies, deps_iter, stdout, err >>

----------------------------------------------------------------------------
(* Bounds of the model. *)

\* the longest argv the model starts with
MaxArgs == 3
\* the most entities the AST visit hands to the callback
MaxNodes == 3
\* the most children of a record entity
MaxChildren == 2

----------------------------------------------------------------------------
(* Option<T> *)

None == << >>
Some(x) == << x >>
IsSome(o) == o # << >>
Unwrap(o) == o[1]

(* Strings: sequences of character codes.  Code 0 is '*', which sorts below  *)
(* every letter.                                                            *)

RECURSIVE StrLess(_, _)
\* the derived Ord of String: lexicographic, a proper prefix sorts first
StrLess(a, b) ==
    IF b = << >> THEN FALSE
    ELSE IF a = << >> THEN TRUE
    ELSE IF a[1] # b[1] THEN a[1] < b[1]
    ELSE StrLess(Tail(a), Tail(b))

\* TypeId is a newtype over the canonical display name; its Ord is the String's
TypeIdLess(a, b) == StrLess(a, b)

\* the canonical display names of the record types of the translation unit
RecIds == { <<1>>, <<1, 2>>, <<2>> }
\* the canonical display name of a primitive type
IntId == <<3>>
\* tag and typedef names
Names == { <<4>>, <<5>> }
\* a name no declaration has
NoSuchName == <<6>>
\* member names
FieldName == <<7>>
ProgName == <<8>>
FileName == <<9>>
\* the placeholder "_" of an unnamed field
Underscore == <<10>>

----------------------------------------------------------------------------
(* clang types.  A type is its canonical base, the number of pointer       *)
(* indirections over it, and the answer of its sizeof query.               *)

Type(base, depth, sizeof) == [base |-> base, depth |-> depth, sizeof |-> sizeof]

RECURSIVE Stars(_)
Stars(n) == IF n = 0 THEN << >> ELSE <<0>> \o Stars(n - 1)

\* Type::get_display_name of the canonical type: pointers are part of the name
get_type_id(ty) == ty.base \o Stars(ty.depth)

\* impl Into<TypeId> for Type
IntoTypeId(ty) == get_type_id(ty)

\* Type::get_pointee_type
get_pointee_type(ty) ==
    IF ty.depth > 0 THEN Some([ty EXCEPT !.depth = ty.depth - 1]) ELSE None

RECURSIVE underlying_type(_)
underlying_type(ty) ==
    IF IsSome(get_pointee_type(ty))
    THEN underlying_type(Unwrap(get_pointee_type(ty)))
    ELSE ty

----------------------------------------------------------------------------
(* clang entities.  `offsetof` is the answer of the enclosing record       *)
(* type's get_offsetof query for this entity's name (None: the query       *)
(* fails); `value` is an enum constant's integer value.                    *)

Entity(kind, is_definition, name, type, offsetof, value, children) ==
    [kind |-> kind, is_definition |-> is_definition, name |-> name,
     type |-> type, offsetof |-> offsetof, value |-> value,
     children |-> children]

RecordDeclKinds == {"StructDecl", "UnionDecl", "EnumDecl"}

\* the unwrap of line 145 panics: an unnamed definition without a type
FindRecordDefPanics(n) ==
    /\ n.is_definition
    /\ n.kind \in RecordDeclKinds
    /\ n.name = None
    /\ n.type = None

RECURSIVE FirstRecordChild(_)
\* the first child of lines 152..159 that is a struct, union or enum declaration
FirstRecordChild(children) ==
    IF children = << >> THEN None
    ELSE IF Head(children).kind \in RecordDeclKinds THEN Some(Head(children))
    ELSE FirstRecordChild(Tail(children))

\* Option<(Entity, String)>
find_record_def(n) ==
    IF n.is_definition /\ n.kind \in RecordDeclKinds
    THEN Some(<< n, IF IsSome(n.name) THEN Unwrap(n.name)
                    ELSE IntoTypeId(Unwrap(n.type)) >>)
    ELSE IF n.kind = "TypedefDecl" /\ IsSome(FirstRecordChild(n.children))
    THEN IF IsSome(n.name)
         THEN Some(<< Unwrap(FirstRecordChild(n.children)), Unwrap(n.name) >>)
         ELSE None
    ELSE None

----------------------------------------------------------------------------
(* The registry. *)

RecordKindOf(kind) ==
    CASE kind = "StructDecl" -> "Struct"
      [] kind = "UnionDecl" -> "Union"
      [] kind = "EnumDecl" -> "Enum"

FieldKinds == {"FieldDecl", "EnumConstantDecl", "UnionDecl", "StructDecl"}

\* the filter of lines 226..232
KeptChildren(n) == SelectSeq(n.children, LAMBDA c : c.kind \in FieldKinds)

\* the unwrap of line 237 panics: a kept child without a type
FieldsPanic(n) ==
    \E i \in 1..Len(KeptChildren(n)) : KeptChildren(n)[i].type = None

\* lines 238..245
MakeField(child) ==
    [name |-> child.name,
     type_id |-> IntoTypeId(Unwrap(child.type)),
     offset |-> IF IsSome(child.name) THEN child.offsetof ELSE None,
     underlying |-> IntoTypeId(underlying_type(Unwrap(child.type)))]

RECURSIVE MapFields(_)
\* the map and collect of lines 233..247
MapFields(children) ==
    IF children = << >> THEN << >>
    ELSE << MakeField(Head(children)) >> \o MapFields(Tail(children))

MakeFields(n) == MapFields(KeptChildren(n))

\* lines 207..248
NewRecordInfo(n, size, type_id) ==
    [kind |-> RecordKindOf(n.kind),
     size |-> size,
     type_id |-> type_id,
     aliases |-> {},
     fields |-> MakeFields(n)]

\* HashMap::new
EmptyMap == [x \in {} |-> {}]

\* HashMap::insert
MapInsert(m, k, v) == [x \in DOMAIN m \cup {k} |-> IF x = k THEN v ELSE m[x]]

\* the entry written anew at every encounter
OrInsertOverwriting(m, k, v) == MapInsert(m, k, v)

\* HashMap::entry(k).or_insert_with(f)
OrInsertWith(m, k, v) == IF k \in DOMAIN m THEN m ELSE MapInsert(m, k, v)

\* the alias set replaced, not extended
InsertAliasReplacing(m, k, name) ==
    [m EXCEPT ![k].aliases = {name}]

\* line 254
InsertAlias(m, k, name) ==
    [m EXCEPT ![k].aliases = m[k].aliases \cup {name}]

\* the filter consulted only when the entry is created
InsertTargetOnCreate(tgts, filters, info, name) ==
    IF name \in filters /\ info.aliases = {} THEN tgts \cup {info.type_id} ELSE tgts

\* lines 251..253
InsertTarget(tgts, filters, info, name) ==
    IF name \in filters THEN tgts \cup {info.type_id} ELSE tgts

----------------------------------------------------------------------------
(* Display *)

KindDisplay(kind) ==
    CASE kind = "Struct" -> "struct"
      [] kind = "Union" -> "union"
      [] kind = "Enum" -> "enum"

\* impl Display for Field
RenderField(f) ==
    << IF IsSome(f.name) THEN Unwrap(f.name) ELSE Underscore, f.type_id, f.offset >>

RECURSIVE RenderFields(_)
\* self.fields.iter().format(", ")
RenderFields(fields) ==
    IF fields = << >> THEN << >>
    ELSE << RenderField(Head(fields)) >> \o RenderFields(Tail(fields))

\* impl Display for RecordInfo
Render(info) ==
    << info.type_id, info.size, KindDisplay(info.kind), RenderFields(info.fields) >>

----------------------------------------------------------------------------
(* The inputs: command lines and entities. *)

\* the name filters a command line may give
FilterArgs == { <<4>>, NoSuchName }

RECURSIVE SeqsUpTo(_, _)
\* the sequences over S of length n at most
SeqsUpTo(S, n) ==
    IF n = 0 THEN { << >> }
    ELSE SeqsUpTo(S, n - 1) \cup
         { s \o << x >> : s \in { t \in SeqsUpTo(S, n - 1) : Len(t) = n - 1 }, x \in S }

\* std::env::args(): nothing, the program, the file, then the name filters
ArgvsOver(filters, n) ==
    { << >>, <<ProgName>> } \cup
    { <<ProgName, FileName>> \o fs : fs \in SeqsUpTo(filters, n - 2) }

Argvs == ArgvsOver(FilterArgs, MaxArgs)

PassArgvs == ArgvsOver(Names \cup {NoSuchName}, MaxArgs + 1)

\* a member that points to the record type b
PtrField(b) ==
    Entity("FieldDecl", TRUE, Some(FieldName), Some(Type(b, 1, Some(8))),
           Some(0), None, << >>)

\* the definition of struct b under the tag nm with the members cs
StructDef(nm, b, cs) ==
    Entity("StructDecl", TRUE, Some(nm), Some(Type(b, 0, Some(8))), None, None, cs)

\* entities whose queries all succeed: every pointer graph over RecIds
GraphNodes ==
    { StructDef(nm, b, cs) :
        nm \in Names, b \in RecIds,
        cs \in SeqsUpTo({ PtrField(x) : x \in RecIds }, MaxChildren) }

\* an unnamed definition whose type query fails, and a definition whose
\* sizeof query fails
BadNodes ==
    { Entity("StructDecl", TRUE, None, None, None, None, << >>),
      Entity("StructDecl", TRUE, Some(<<4>>), Some(Type(<<1>>, 0, None)), None,
             None, << >>) }

\* a member of type int, held by value
IntField ==
    Entity("FieldDecl", TRUE, Some(FieldName), Some(Type(IntId, 0, Some(4))),
           Some(0), None, << >>)

\* the children a record entity may have, beyond PtrField
RichChildren ==
    { IntField,
      PtrField(<<1>>),
      \* a member whose offset query fails
      Entity("FieldDecl", TRUE, Some(FieldName), Some(Type(IntId, 0, Some(4))),
             None, None, << >>),
      \* an unnamed member
      Entity("FieldDecl", TRUE, None, Some(Type(<<2>>, 0, Some(8))),
             None, None, << >>),
      \* a member whose type query fails
      Entity("FieldDecl", TRUE, Some(FieldName), None, Some(0), None, << >>),
      \* an enum constant; an enum type answers no offset query
      Entity("EnumConstantDecl", TRUE, Some(FieldName),
             Some(Type(IntId, 0, Some(4))), None, Some(1), << >>),
      \* a nested struct definition
      Entity("StructDecl", TRUE, Some(<<5>>), Some(Type(<<2>>, 0, Some(8))),
             None, None, << >>),
      \* a child the filter of line 226 drops
      Entity("FunctionDecl", TRUE, Some(FieldName), None, None, None, << >>) }

RecordNode(kind, is_definition, name, type, children) ==
    Entity(kind, is_definition, name, type, None, None, children)

\* the children a typedef entity may have
TypedefChildren ==
    { \* typedef struct { int f; } T;
      RecordNode("StructDecl", TRUE, None, Some(Type(<<1>>, 0, Some(8))),
                 << IntField >>),
      \* typedef union U { ... } T;
      RecordNode("UnionDecl", TRUE, Some(<<4>>), Some(Type(<<2>>, 0, Some(4))),
                 << >>),
      \* typedef struct S T; with S only declared
      RecordNode("StructDecl", FALSE, Some(<<4>>), Some(Type(<<2>>, 0, Some(8))),
                 << >>),
      \* typedef int T;
      Entity("TypeRef", FALSE, None, Some(Type(IntId, 0, Some(4))), None, None,
             << >>) }

\* entities of every shape the callback tells apart
RichNodes ==
    { RecordNode(k, TRUE, Some(<<4>>), Some(Type(<<1>>, 0, Some(8))), << IntField >>) :
        k \in RecordDeclKinds }
    \cup
    { RecordNode("StructDecl", d, nm, Some(Type(<<1>>, 0, Some(8))), << IntField >>) :
        d \in BOOLEAN, nm \in { None, Some(<<4>>), Some(<<5>>) } }
    \cup
    { RecordNode("StructDecl", TRUE, nm, ty, << IntField >>) :
        nm \in { None, Some(<<5>>) },
        ty \in { None, Some(Type(<<1>>, 0, None)), Some(Type(<<1>>, 0, Some(4))),
                 Some(Type(<<2>>, 0, Some(8))) } }
    \cup
    { RecordNode(k, TRUE, Some(<<4>>), Some(Type(<<2>>, 0, Some(8))), cs) :
        k \in { "StructDecl", "EnumDecl" },
        cs \in SeqsUpTo(RichChildren, 1) \cup { << c, IntField >> : c \in RichChildren } }
    \cup
    { Entity("TypedefDecl", TRUE, nm, Some(Type(<<1>>, 0, Some(8))), None, None, << c >>) :
        nm \in { None, Some(<<5>>) }, c \in TypedefChildren }
    \cup
    { Entity("VarDecl", TRUE, Some(<<4>>), Some(Type(IntId, 0, Some(4))), None, None,
             << >>) }

----------------------------------------------------------------------------
(* main *)

\* the callback of line 190 has not been called yet
NoCall == [outcome |-> "none", is_definition |-> TRUE, name |-> None, created |-> None]

\* a call of the callback on an entity, or on the record node and name found in
\* it: how the call ended, and the record node a new RecordInfo was built from
Call(outcome, node, name, created) ==
    [outcome |-> outcome, is_definition |-> node.is_definition,
     name |-> name, created |-> created]

\* the state main starts in, for a command line of argvs
InitWith(argvs) ==
    /\ pc = "args"
    /\ argv \in argvs
    /\ name_filters = {}
    /\ tu = FALSE
    /\ nvisited = 0
    /\ struct_lookup = EmptyMap
    /\ targets = {}
    /\ encountered = {}
    /\ met = {}
    /\ last = NoCall
    /\ stderr = << >>
    /\ remaining = {}
    /\ visited = {}
    /\ discovered = {}
    /\ stack = << >>
    /\ type_dependencies = {}
    /\ deps_iter = {}
    /\ stdout = << >>
    /\ err = None

Init == InitWith(Argvs)

\* command lines with one more name filter, over every name
InitPass == InitWith(PassArgvs)

\* main returns Err(message): the process exits with status 1
Fail(message) ==
    /\ pc' = "error"
    /\ err' = Some(message)

\* a panic: the process exits with status 101
Panic(message) ==
    /\ pc' = "panic"
    /\ err' = Some(message)

\* the ensure! of line 178 left out
FiltersGivenAlways(filters) == TRUE

\* the condition of the ensure! of line 178
FiltersGiven(filters) == filters # {}

\* lines 173..179
Args ==
    /\ pc = "args"
    /\ IF Len(argv) < 2
       THEN /\ Fail("Need arg")
            /\ UNCHANGED name_filters
       ELSE /\ name_filters' = { argv[i] : i \in 3..Len(argv) }
            /\ IF FiltersGiven(name_filters')
               THEN pc' = "parse" /\ UNCHANGED err
               ELSE Fail("Need a name filter")
    /\ UNCHANGED << argv, tu, nvisited, struct_lookup, targets, encountered, met, last,
                    stderr, remaining, visited, discovered, stack,
                    type_dependencies, deps_iter, stdout >>

\* lines 180..189: Clang::new, Index::new, parse
Parse ==
    /\ pc = "parse"
    /\ \E outcome \in {"ok", "Clang::new failed", "parse failed"} :
          IF outcome = "ok"
          THEN /\ tu' = TRUE
               /\ pc' = "visit"
               /\ UNCHANGED err
          ELSE /\ Fail(outcome)
               /\ UNCHANGED tu
    /\ UNCHANGED << argv, name_filters, nvisited, struct_lookup, targets,
                    encountered, met, last, stderr, remaining, visited, discovered,
                    stack, type_dependencies, deps_iter, stdout >>

\* what a later encounter of an entity offers differs from what the registry holds
Conflicts(struct_, size, type_id) ==
    /\ type_id \in DOMAIN struct_lookup
    /\ \/ FieldsPanic(struct_)
       \/ struct_lookup[type_id].kind # RecordKindOf(struct_.kind)
       \/ struct_lookup[type_id].size # size
       \/ struct_lookup[type_id].fields # MakeFields(struct_)

\* the alias and the target recorded as soon as the type is known, before the
\* size query of line 203
RegisterBeforeSize(struct_, name) ==
    IF struct_.type = None
    THEN /\ pc' = pc
         /\ met' = met \cup {"skip"}
         /\ last' = Call("skip", struct_, Some(name), None)
         /\ UNCHANGED << struct_lookup, targets, encountered, err >>
    ELSE IF Unwrap(struct_.type).sizeof = None
    THEN LET type_id == IntoTypeId(Unwrap(struct_.type))
         IN  /\ pc' = pc
             /\ met' = met \cup {"skip"}
             /\ last' = Call("skip", struct_, Some(name), None)
             /\ IF type_id \in DOMAIN struct_lookup
                THEN /\ targets' = InsertTarget(targets, name_filters,
                                                struct_lookup[type_id], name)
                     /\ struct_lookup' = InsertAlias(struct_lookup, type_id, name)
                ELSE UNCHANGED << struct_lookup, targets >>
             /\ UNCHANGED << encountered, err >>
    ELSE LET struct_type == Unwrap(struct_.type)
             size == Unwrap(struct_type.sizeof)
             type_id == IntoTypeId(struct_type)
         IN  IF type_id \notin DOMAIN struct_lookup /\ FieldsPanic(struct_)
             THEN /\ Panic("unwrap on None")
                  /\ last' = Call("panic", struct_, Some(name), None)
                  /\ UNCHANGED << struct_lookup, targets, encountered, met >>
             ELSE LET lookup == OrInsertWith(struct_lookup, type_id,
                                             NewRecordInfo(struct_, size, type_id))
                      new == lookup[type_id]
                  IN  /\ targets' = InsertTarget(targets, name_filters, new, name)
                      /\ struct_lookup' = InsertAlias(lookup, type_id, name)
                      /\ encountered' = encountered \cup { << type_id, name >> }
                      /\ met' = met
                              \cup (IF Conflicts(struct_, size, type_id)
                                    THEN {"conflict"} ELSE {})
                              \cup (IF << type_id, name >> \in encountered
                                    THEN {"repeat"} ELSE {})
                      /\ last' = IF type_id \in DOMAIN struct_lookup
                                 THEN Call("extended", struct_, Some(name), None)
                                 ELSE Call("created", struct_, Some(name),
                                           Some(struct_))
                      /\ pc' = pc
                      /\ UNCHANGED err

\* lines 200..265: the closure run on a qualifying (record-node, name) pair
Register(struct_, name) ==
    IF struct_.type = None \/ Unwrap(struct_.type).sizeof = None
    THEN \* the `?` of line 202 or 203
         /\ pc' = pc
         /\ met' = met \cup {"skip"}
         /\ last' = Call("skip", struct_, Some(name), None)
         /\ UNCHANGED << struct_lookup, targets, encountered, err >>
    ELSE LET struct_type == Unwrap(struct_.type)
             size == Unwrap(struct_type.sizeof)
             type_id == IntoTypeId(struct_type)
         IN  IF type_id \notin DOMAIN struct_lookup /\ FieldsPanic(struct_)
             THEN /\ Panic("unwrap on None")
                  /\ last' = Call("panic", struct_, Some(name), None)
                  /\ UNCHANGED << struct_lookup, targets, encountered, met >>
             ELSE LET lookup == OrInsertWith(struct_lookup, type_id,
                                             NewRecordInfo(struct_, size, type_id))
                      new == lookup[type_id]
                  IN  /\ targets' = InsertTarget(targets, name_filters, new, name)
                      /\ struct_lookup' = InsertAlias(lookup, type_id, name)
                      /\ encountered' = encountered \cup { << type_id, name >> }
                      /\ met' = met
                              \cup (IF Conflicts(struct_, size, type_id)
                                    THEN {"conflict"} ELSE {})
                              \cup (IF << type_id, name >> \in encountered
                                    THEN {"repeat"} ELSE {})
                      /\ last' = IF type_id \in DOMAIN struct_lookup
                                 THEN Call("extended", struct_, Some(name), None)
                                 ELSE Call("created", struct_, Some(name),
                                           Some(struct_))
                      /\ pc' = pc
                      /\ UNCHANGED err

\* lines 190..318: the callback of visit_children, on one entity
Visit(n) ==
    IF FindRecordDefPanics(n)
    THEN /\ Panic("unwrap on None")
         /\ last' = Call("panic", n, None, None)
         /\ UNCHANGED << struct_lookup, targets, encountered, met >>
    ELSE IF find_record_def(n) = None
    THEN /\ pc' = pc
         /\ met' = met \cup {"unqualified"}
         /\ last' = Call("unqualified", n, None, None)
         /\ UNCHANGED << struct_lookup, targets, encountered, err >>
    ELSE Register(Unwrap(find_record_def(n))[1], Unwrap(find_record_def(n))[2])

\* visit_children hands the next entity of the tree to the callback
VisitNode(nodes) ==
    /\ pc = "visit"
    /\ nvisited < MaxNodes
    /\ \E n \in nodes : Visit(n)
    /\ nvisited' = nvisited + 1
    /\ UNCHANGED << argv, name_filters, tu, stderr, remaining, visited,
                    discovered, stack, type_dependencies, deps_iter, stdout >>

\* HashMap::values: the order is unspecified, so the dump is modelled as a set
Values(m) == { Render(m[k]) : k \in DOMAIN m }

\* the pass ends without the eprintln! of line 323
DumpSilent ==
    /\ pc = "visit"
    /\ type_dependencies' = {}
    /\ remaining' = targets
    /\ pc' = "closure"
    /\ last' = NoCall
    /\ UNCHANGED << argv, name_filters, tu, nvisited, struct_lookup, targets,
                    encountered, met, visited, discovered, stack, deps_iter,
                    stdout, err, stderr >>

\* visit_children returns; lines 322..325, and the `for` of line 326 takes targets
Dump ==
    /\ pc = "visit"
    /\ stderr' = Append(stderr, << "registry", Values(struct_lookup) >>)
    /\ type_dependencies' = {}
    /\ remaining' = targets
    /\ pc' = "closure"
    /\ last' = NoCall
    /\ UNCHANGED << argv, name_filters, tu, nvisited, struct_lookup, targets,
                    encountered, met, visited, discovered, stack, deps_iter,
                    stdout, err >>

----------------------------------------------------------------------------
(* The dependency closure, lines 326..415. *)

\* the stack of line 331 created empty
StartTargetUnseeded ==
    /\ pc = "closure"
    /\ stack = << >>
    /\ \E target \in remaining :
          /\ remaining' = remaining \ {target}
          /\ visited' = {}
          /\ discovered' = {target}
          /\ stack' = << >>
    /\ UNCHANGED << pc, argv, name_filters, tu, nvisited, struct_lookup, targets,
                    encountered, met, last, stderr, type_dependencies, deps_iter,
                    stdout, err >>

\* lines 328..332: the next target of the `for`, in the HashSet's order
StartTarget ==
    /\ pc = "closure"
    /\ stack = << >>
    /\ \E target \in remaining :
          /\ remaining' = remaining \ {target}
          /\ visited' = {}
          /\ discovered' = {target}
          /\ stack' = << target >>
    /\ UNCHANGED << pc, argv, name_filters, tu, nvisited, struct_lookup, targets,
                    encountered, met, last, stderr, type_dependencies, deps_iter,
                    stdout, err >>

\* the loop left after its first field
DiscoverHeadOnly(fields, disc, stk) ==
    IF fields = << >> THEN << disc, stk >>
    ELSE IF /\ Head(fields).underlying \in DOMAIN struct_lookup
            /\ Head(fields).underlying \notin disc
         THEN << disc \cup {Head(fields).underlying},
                 Append(stk, Head(fields).underlying) >>
         ELSE << disc, stk >>

RECURSIVE DiscoverUnmarked(_, _, _)
\* every registered underlying type pushed, discovered or not
DiscoverUnmarked(fields, disc, stk) ==
    IF fields = << >> THEN << disc, stk >>
    ELSE IF Head(fields).underlying \in DOMAIN struct_lookup
         THEN DiscoverUnmarked(Tail(fields), disc \cup {Head(fields).underlying},
                               Append(stk, Head(fields).underlying))
         ELSE DiscoverUnmarked(Tail(fields), disc, stk)

RECURSIVE DiscoverUnrecorded(_, _, _)
\* the push of line 346 without the insert into discovered of line 345
DiscoverUnrecorded(fields, disc, stk) ==
    IF fields = << >> THEN << disc, stk >>
    ELSE IF /\ Head(fields).underlying \in DOMAIN struct_lookup
            /\ Head(fields).underlying \notin disc
         THEN DiscoverUnrecorded(Tail(fields), disc,
                                 Append(stk, Head(fields).underlying))
         ELSE DiscoverUnrecorded(Tail(fields), disc, stk)

RECURSIVE DiscoverUnchecked(_, _, _)
\* the loop without the contains_key of line 344
DiscoverUnchecked(fields, disc, stk) ==
    IF fields = << >> THEN << disc, stk >>
    ELSE IF Head(fields).underlying \notin disc
         THEN DiscoverUnchecked(Tail(fields), disc \cup {Head(fields).underlying},
                                Append(stk, Head(fields).underlying))
         ELSE DiscoverUnchecked(Tail(fields), disc, stk)

RECURSIVE DiscoverTypeId(_, _, _)
\* the field's own type pushed in place of its underlying type
DiscoverTypeId(fields, disc, stk) ==
    IF fields = << >> THEN << disc, stk >>
    ELSE IF /\ Head(fields).underlying \in DOMAIN struct_lookup
            /\ Head(fields).type_id \notin disc
         THEN DiscoverTypeId(Tail(fields), disc \cup {Head(fields).type_id},
                             Append(stk, Head(fields).type_id))
         ELSE DiscoverTypeId(Tail(fields), disc, stk)

RECURSIVE Discover(_, _, _)
\* lines 343..349: the fields in order; the result is << discovered, stack >>
Discover(fields, disc, stk) ==
    IF fields = << >> THEN << disc, stk >>
    ELSE IF /\ Head(fields).underlying \in DOMAIN struct_lookup
            /\ Head(fields).underlying \notin disc
         THEN Discover(Tail(fields), disc \cup {Head(fields).underlying},
                       Append(stk, Head(fields).underlying))
         ELSE Discover(Tail(fields), disc, stk)

\* lines 333..349: one iteration of the `while let`
Pop ==
    /\ pc = "closure"
    /\ stack # << >>
    /\ LET type_id == stack[Len(stack)]
           rest == SubSeq(stack, 1, Len(stack) - 1)
       IN  IF type_id \in visited
           THEN /\ Panic("assertion failed: visited.insert")
                /\ stack' = rest
                /\ UNCHANGED << visited, discovered, type_dependencies >>
           ELSE IF type_id \notin DOMAIN struct_lookup
           THEN /\ Panic("key not found in struct_lookup")
                /\ stack' = rest
                /\ visited' = visited \cup {type_id}
                /\ UNCHANGED << discovered, type_dependencies >>
           ELSE /\ visited' = visited \cup {type_id}
                /\ type_dependencies' =
                       type_dependencies \cup {struct_lookup[type_id].type_id}
                /\ discovered' = Discover(struct_lookup[type_id].fields,
                                          discovered, rest)[1]
                /\ stack' = Discover(struct_lookup[type_id].fields,
                                     discovered, rest)[2]
                /\ UNCHANGED << pc, err >>
    /\ UNCHANGED << argv, name_filters, tu, nvisited, struct_lookup, targets,
                    encountered, met, last, stderr, remaining, deps_iter, stdout >>

\* lines 416..418: the `for` of line 326 is over
DumpDeps ==
    /\ pc = "closure"
    /\ stack = << >>
    /\ remaining = {}
    /\ stderr' = stderr \o << << "deps", type_dependencies >>, << "", {} >> >>
    /\ deps_iter' = type_dependencies
    /\ pc' = "print"
    /\ UNCHANGED << argv, name_filters, tu, nvisited, struct_lookup, targets,
                    encountered, met, last, remaining, visited, discovered, stack,
                    type_dependencies, stdout, err >>

\* iteration of a set that keeps no order
FirstUnordered(S) == CHOOSE x \in S : TRUE

\* BTreeSet iteration: the least element first
First(S) == CHOOSE x \in S : \A y \in S \ {x} : TypeIdLess(x, y)

\* the record taken out of the registry as it is printed
PrintRecordRemoving ==
    /\ pc = "print"
    /\ deps_iter # {}
    /\ LET dep == First(deps_iter)
       IN  /\ deps_iter' = deps_iter \ {dep}
           /\ IF dep \in DOMAIN struct_lookup
              THEN /\ stdout' = Append(stdout, Render(struct_lookup[dep]))
                   /\ struct_lookup' =
                          [k \in DOMAIN struct_lookup \ {dep} |-> struct_lookup[k]]
                   /\ UNCHANGED << pc, err >>
              ELSE /\ Panic("key not found in struct_lookup")
                   /\ UNCHANGED << stdout, struct_lookup >>
    /\ UNCHANGED << argv, name_filters, tu, nvisited, targets,
                    encountered, met, last, stderr, remaining, visited, discovered,
                    stack, type_dependencies >>

\* lines 418..420: one iteration
PrintRecord ==
    /\ pc = "print"
    /\ deps_iter # {}
    /\ LET dep == First(deps_iter)
       IN  /\ deps_iter' = deps_iter \ {dep}
           /\ IF dep \in DOMAIN struct_lookup
              THEN /\ stdout' = Append(stdout, Render(struct_lookup[dep]))
                   /\ UNCHANGED << pc, err >>
              ELSE /\ Panic("key not found in struct_lookup")
                   /\ UNCHANGED stdout
    /\ UNCHANGED << argv, name_filters, tu, nvisited, struct_lookup, targets,
                    encountered, met, last, stderr, remaining, visited, discovered,
                    stack, type_dependencies >>

\* line 421: Ok(()), the process exits with status 0
Return ==
    /\ pc = "print"
    /\ deps_iter = {}
    /\ pc' = "done"
    /\ UNCHANGED << argv, name_filters, tu, nvisited, struct_lookup, targets,
                    encountered, met, last, stderr, remaining, visited, discovered,
                    stack, type_dependencies, deps_iter, stdout, err >>

\* the exit status of the process
ExitStatus ==
    CASE pc = "done" -> 0
      [] pc = "error" -> 1
      [] pc = "panic" -> 101
      [] OTHER -> 255

\* the entities of the translation units Spec visits
SpecNodes == GraphNodes \cup BadNodes

Next ==
    \/ Args
    \/ Parse
    \/ VisitNode(SpecNodes)
    \/ Dump
    \/ StartTarget
    \/ Pop
    \/ DumpDeps
    \/ PrintRecord
    \/ Return

Spec == Init /\ [][Next]_vars

\* the same program over the entities of RichNodes
NextPass ==
    \/ Args
    \/ Parse
    \/ VisitNode(RichNodes)
    \/ Dump
    \/ StartTarget
    \/ Pop
    \/ DumpDeps
    \/ PrintRecord
    \/ Return

PassSpec == InitPass /\ [][NextPass]_vars

\* main runs to its end: the process is never suspended
LiveSpec == Spec /\ WF_vars(Next)

----------------------------------------------------------------------------
(* The dependency graph of the registry, as the claims speak of it. *)

\* the registered records the fields of t refer to
Deps(t) ==
    { struct_lookup[t].fields[i].underlying :
        i \in 1..Len(struct_lookup[t].fields) } \cap DOMAIN struct_lookup

RECURSIVE Closure(_)
\* the least set that holds S and is closed under Deps
Closure(S) ==
    LET T == S \cup UNION { Deps(t) : t \in S }
    IN  IF T = S THEN S ELSE Closure(T)

\* a transitively depends on b
DependsOn(a, b) == b \in Closure(Deps(a))

\* the positions of the rendered lines of record t on standard output
Lines(t) == { i \in 1..Len(stdout) : stdout[i][1] = t }

Ended == pc \in {"done", "error", "panic"}

\* visit_children has returned
PassOver == pc \in {"closure", "print", "done"}

----------------------------------------------------------------------------
(* C1: of two printed records A and B where A transitively depends on B   *)
(* and B does not depend on A, B's line comes before A's line.            *)
TopologicalOrder ==
    \A a \in DOMAIN struct_lookup : \A b \in DOMAIN struct_lookup :
        ( /\ Lines(a) # {}
          /\ Lines(b) # {}
          /\ DependsOn(a, b)
          /\ ~DependsOn(b, a) )
        => \A i \in Lines(a) : \A j \in Lines(b) : j < i

(* C2: when the run is over, every record reachable from a target through *)
(* underlying edges between registered records has exactly one line on    *)
(* standard output.                                                       *)
ClosureComplete ==
    pc = "done" =>
        \A r \in targets : \A x \in Closure({r}) : Cardinality(Lines(x)) = 1

\* a record outside targets that two targets reach, one of them along two paths
ClosureCompleteWitness ==
    /\ pc = "done"
    /\ \E r1 \in targets : \E r2 \in targets \ {r1} :
          \E x \in (Closure({r1}) \cap Closure({r2})) \ targets :
              /\ x \in Deps(r1)
              /\ r2 \in Deps(r1)
              /\ x \in Deps(r2)
              /\ Cardinality(Lines(x)) = 1

\* on a cycle: the record depends on itself
OnCycle(x) == DependsOn(x, x)

(* C3: once the closure traversal has begun it comes to its end with an   *)
(* empty stack, the run finishes, and every record of the closure that    *)
(* lies on a cycle has exactly one line on standard output.               *)
CycleSafety ==
    (pc = "closure")
        ~> ( /\ pc = "done"
             /\ stack = << >>
             /\ \A x \in Closure(targets) :
                   OnCycle(x) => Cardinality(Lines(x)) = 1 )

\* a self-referencing record and two records that refer to each other, all printed
CycleSafetyWitness ==
    /\ pc = "done"
    /\ \E x \in Closure(targets) : x \in Deps(x) /\ Cardinality(Lines(x)) = 1
    /\ \E x \in Closure(targets) : \E y \in Closure(targets) \ {x} :
          /\ y \in Deps(x)
          /\ x \in Deps(y)
          /\ x \notin Deps(x)
          /\ Cardinality(Lines(x)) = 1
          /\ Cardinality(Lines(y)) = 1

----------------------------------------------------------------------------
\* the names under which the pass has met the record t with its queries succeeding
NamesOf(t) == { p[2] : p \in { q \in encountered : q[1] = t } }

\* the names met for t in the step just taken
NewNamesOf(t) == { p[2] : p \in { q \in encountered' : q[1] = t /\ q \notin encountered } }

(* C4: a step never removes a registry entry nor changes its kind, size   *)
(* or fields; its aliases can only grow, and only by the name met in that *)
(* step.                                                                  *)
FirstDiscoveryWins ==
    [][ \A t \in DOMAIN struct_lookup :
          /\ t \in DOMAIN struct_lookup'
          /\ struct_lookup'[t].kind = struct_lookup[t].kind
          /\ struct_lookup'[t].size = struct_lookup[t].size
          /\ struct_lookup'[t].fields = struct_lookup[t].fields
          /\ struct_lookup[t].aliases \subseteq struct_lookup'[t].aliases
          /\ struct_lookup'[t].aliases \ struct_lookup[t].aliases \subseteq NewNamesOf(t)
      ]_vars

\* a registered record has been met again with another kind, size or field list
FirstDiscoveryWinsWitness ==
    /\ "conflict" \in met
    /\ \E t \in DOMAIN struct_lookup : Cardinality(struct_lookup[t].aliases) >= 2

(* C5: after the pass, every record met with its queries succeeding has   *)
(* one RecordInfo, stored under its own TypeId, whose aliases are exactly *)
(* the distinct names it was met under; no two entries share a TypeId.    *)
Aliasing ==
    PassOver =>
        /\ \A p \in encountered : p[1] \in DOMAIN struct_lookup
        /\ \A t \in DOMAIN struct_lookup :
              /\ struct_lookup[t].type_id = t
              /\ struct_lookup[t].aliases = NamesOf(t)
              /\ Cardinality(struct_lookup[t].aliases) = Cardinality(NamesOf(t))
        /\ \A t \in DOMAIN struct_lookup : \A u \in DOMAIN struct_lookup :
              struct_lookup[t].type_id = struct_lookup[u].type_id => t = u

\* a record met under two names, one of them twice
AliasingWitness ==
    /\ PassOver
    /\ "repeat" \in met
    /\ \E t \in DOMAIN struct_lookup : Cardinality(struct_lookup[t].aliases) = 2

(* C6: targets is always a subset of the registry's keys, and after the   *)
(* pass it is exactly the set of keys with an alias in the filter set.    *)
TargetSelection ==
    /\ targets \subseteq DOMAIN struct_lookup
    /\ PassOver =>
          targets = { t \in DOMAIN struct_lookup :
                        struct_lookup[t].aliases \cap name_filters # {} }

\* two filters; a target with an alias outside the filters; a record that is no target
TargetSelectionWitness ==
    /\ PassOver
    /\ Cardinality(name_filters) = 2
    /\ \E t \in targets : ~(struct_lookup[t].aliases \subseteq name_filters)
    /\ DOMAIN struct_lookup \ targets # {}

(* C7: a run whose pass ends with no target ends with a non-zero exit     *)
(* status.                                                                *)
NoMatchFails ==
    (Ended /\ tu /\ targets = {}) => ExitStatus # 0

(* C8: a run given a source file and no name filter ends in the error     *)
(* "Need a name filter" with nothing parsed, registered or printed.       *)
EmptyFilterRejected ==
    Len(argv) = 2 =>
        /\ pc \in {"args", "error"}
        /\ pc = "error" => err = Some("Need a name filter")
        /\ tu = FALSE
        /\ DOMAIN struct_lookup = {}
        /\ stdout = << >>

\* the run with a file and no filter has ended
EmptyFilterRejectedWitness ==
    /\ Len(argv) = 2
    /\ pc = "error"

(* C9: the registry pass is never aborted: no run panics before the pass  *)
(* has ended.                                                             *)
PassNeverAborts ==
    ~(pc = "panic" /\ stderr = << >>)

\* the dump of the registry is on the diagnostic stream
RegistryDumped == \E i \in 1..Len(stderr) : stderr[i][1] = "registry"

(* C10, as claimed: every run that has ended has dumped the registry.     *)
DumpAlways ==
    Ended => RegistryDumped

(* C10, amended: once the pass is over the dump of the whole registry is  *)
(* the first thing on the diagnostic stream, matched filters or not; a    *)
(* run that ends before the pass is over has written no dump.             *)
DumpAfterPass ==
    /\ PassOver =>
          /\ stderr # << >>
          /\ stderr[1] = << "registry", Values(struct_lookup) >>
    /\ stdout # << >> => RegistryDumped
    /\ (Ended /\ pc # "done") => ~RegistryDumped

\* a finished run in which no filter matched and a non-empty registry was dumped
DumpAfterPassWitness ==
    /\ pc = "done"
    /\ targets = {}
    /\ DOMAIN struct_lookup # {}
    /\ RegistryDumped

----------------------------------------------------------------------------
(* C11: a call of the callback that ends at a failed type or size query   *)
(* of a qualifying (record-node, name) pair leaves the registry, aliases  *)
(* included, and targets as they were, whether or not the name is one of  *)
(* the filters.                                                           *)
SilentSkip ==
    [][ (nvisited' = nvisited + 1 /\ last'.outcome = "skip")
          => /\ struct_lookup' = struct_lookup
             /\ targets' = targets
      ]_vars

\* a pair whose name is a filter has been skipped, with a registry that holds records
SilentSkipWitness ==
    /\ last.outcome = "skip"
    /\ Unwrap(last.name) \in name_filters
    /\ DOMAIN struct_lookup # {}
    /\ \A t \in DOMAIN struct_lookup : Unwrap(last.name) \notin struct_lookup[t].aliases

(* C12: a TypeId is added to the output only at its second pop: a step    *)
(* never adds a TypeId that the traversal had not already marked visited  *)
(* at an earlier pop.                                                     *)
SecondPopEmission ==
    [][ \A t \in type_dependencies' \ type_dependencies : t \in visited ]_vars

\* the TypeIds on the stack of line 331
OnStack == { stack[i] : i \in 1..Len(stack) }

(* C13: the visited.insert assertion never fails; every TypeId on the     *)
(* stack is in discovered, is there once and has not been popped; every   *)
(* discovered TypeId has been pushed once, so that the pushes of one      *)
(* root's traversal are at most as many as the registry has entries.      *)
TraversalBookkeeping ==
    /\ err # Some("assertion failed: visited.insert")
    /\ OnStack \subseteq discovered
    /\ OnStack \cap visited = {}
    /\ Cardinality(OnStack) = Len(stack)
    /\ discovered = visited \cup OnStack
    /\ Cardinality(discovered) <= Cardinality(DOMAIN struct_lookup)

\* two TypeIds wait on the stack, one of them with a field of an expanded record's type
TraversalBookkeepingWitness ==
    /\ pc = "closure"
    /\ Len(stack) = 2
    /\ \E t \in visited : \E u \in OnStack : t \in Deps(u) /\ u \in Deps(t)

(* C14: a record node that is no definition is never returned by the      *)
(* decision rule, met directly or as the child of a typedef: a call that  *)
(* meets one ends without a qualifying pair, and so neither creates nor   *)
(* extends a registry entry.                                              *)
ForwardDeclarationsNeverRegister ==
    ~last.is_definition => last.outcome = "unqualified"

\* the underlying TypeIds of the fields of record t
Underlyings(t) ==
    { struct_lookup[t].fields[i].underlying : i \in 1..Len(struct_lookup[t].fields) }

\* the underlying TypeIds of registered fields that are no registry key
DeadEnds == UNION { Underlyings(t) : t \in DOMAIN struct_lookup } \ DOMAIN struct_lookup

(* C15: the underlying TypeId of a field that is no registry key is never *)
(* pushed or discovered, never enters the output set, has no line on      *)
(* standard output, and no run panics once the pass is over.              *)
DeadEdges ==
    /\ DeadEnds \cap (OnStack \cup discovered \cup type_dependencies \cup deps_iter) = {}
    /\ \A d \in DeadEnds : Lines(d) = {}
    /\ err # Some("key not found in struct_lookup")
    /\ ~(pc = "panic" /\ RegistryDumped)

\* a printed record with a field of a registered type and a field of a type not registered
DeadEdgesWitness ==
    /\ pc = "done"
    /\ \E t \in DOMAIN struct_lookup :
          /\ Lines(t) # {}
          /\ Deps(t) # {}
          /\ Underlyings(t) \cap DeadEnds # {}

(* C16: in the RecordInfo a call has just created, the offset of the      *)
(* field of an enum constant child is the constant's value, the offset of *)
(* the field of a named child of another kind is the answer of the        *)
(* offset-of query, and that of an unnamed child of another kind is None. *)
EnumOffsetIsValue ==
    last.outcome = "created" =>
        LET struct_ == Unwrap(last.created)
            kept == KeptChildren(struct_)
            fields == struct_lookup[IntoTypeId(Unwrap(struct_.type))].fields
        IN  \A i \in 1..Len(kept) :
               /\ kept[i].kind = "EnumConstantDecl"
                     => fields[i].offset = kept[i].value
               /\ (kept[i].kind # "EnumConstantDecl" /\ IsSome(kept[i].name))
                     => fields[i].offset = kept[i].offsetof
               /\ (kept[i].kind # "EnumConstantDecl" /\ kept[i].name = None)
                     => fields[i].offset = None

(* C17: a run whose pass has ended with targets not empty ends with exit  *)
(* status 0 and with a line on standard output for every target, so its   *)
(* output is not empty.                                                   *)
NonEmptyResult ==
    (Ended /\ RegistryDumped /\ targets # {}) =>
        /\ pc = "done"
        /\ stdout # << >>
        /\ \A r \in targets : Lines(r) # {}

\* a finished run with two targets, neither a dependency of the other
NonEmptyResultWitness ==
    /\ pc = "done"
    /\ \E r1 \in targets : \E r2 \in targets \ {r1} :
          /\ r1 \notin Closure({r2})
          /\ r2 \notin Closure({r1})
          /\ Lines(r1) # {}
          /\ Lines(r2) # {}

(* C18: once the pass is over, no step changes the registry.              *)
RegistryReadOnly ==
    [][ PassOver => struct_lookup' = struct_lookup ]_vars

\* a finished run that has printed the three records of its registry
RegistryReadOnlyWitness ==
    /\ pc = "done"
    /\ Cardinality(DOMAIN struct_lookup) = 3
    /\ Len(stdout) = 3

\* the TypeIds of the lines on standard output, in the order they were written
Printed == [ i \in 1..Len(stdout) |-> stdout[i][1] ]

(* C19: the lines on standard output are strictly increasing in the       *)
(* lexicographic order of their TypeIds, and the output of a finished run *)
(* is the rendering of the closure of targets in that order, whatever the *)
(* order in which the targets and the fields were taken.                  *)
OutputSorted ==
    /\ \A i \in 1..Len(stdout) : \A j \in 1..Len(stdout) :
          i < j => StrLess(Printed[i], Printed[j])
    /\ pc = "done" =>
          /\ { Printed[i] : i \in 1..Len(stdout) } = Closure(targets)
          /\ \A i \in 1..Len(stdout) : stdout[i] = Render(struct_lookup[Printed[i]])

\* three records printed for two targets, a TypeId that is a prefix of another among them
OutputSortedWitness ==
    /\ pc = "done"
    /\ Cardinality(targets) = 2
    /\ Printed = << <<1>>, <<1, 2>>, <<2>> >>

RECURSIVE SeqOf(_)
\* the members of S in a sequence
SeqOf(S) == IF S = {} THEN << >> ELSE << First(S) >> \o SeqOf(S \ {First(S)})

RECURSIVE Traverse(_, _, _)
\* the loop of lines 333..349 run to its end from a stack and a discovered set:
\* the TypeIds it adds to out
Traverse(stk, disc, out) ==
    IF stk = << >> THEN out
    ELSE LET type_id == stk[Len(stk)]
             d == Discover(struct_lookup[type_id].fields, disc,
                           SubSeq(stk, 1, Len(stk) - 1))
         IN  Traverse(d[2], d[1], out \cup {struct_lookup[type_id].type_id})

\* one traversal with every target on the stack and discovered at its start
SingleTraversal == Traverse(SeqOf(targets), targets, {})

(* C20: every TypeId on the stack, in the output set or printed is a      *)
(* registry key within the closure of targets; no lookup by such a TypeId *)
(* fails; and the output set of the traversals run one per target is the  *)
(* output set of a single traversal started from all targets.             *)
ClosureSound ==
    /\ (OnStack \cup type_dependencies \cup deps_iter) \subseteq DOMAIN struct_lookup
    /\ (OnStack \cup type_dependencies) \subseteq Closure(targets)
    /\ \A i \in 1..Len(stdout) : Printed[i] \in Closure(targets)
    /\ err # Some("key not found in struct_lookup")
    /\ pc \in {"print", "done"} => type_dependencies = SingleTraversal

\* two targets that do not depend on each other and a record outside their closure
ClosureSoundWitness ==
    /\ pc = "done"
    /\ DOMAIN struct_lookup \ Closure(targets) # {}
    /\ \E r1 \in targets : \E r2 \in targets \ {r1} :
          /\ r1 \notin Closure({r2})
          /\ r2 \notin Closure({r1})
    /\ type_dependencies = SingleTraversal

====
